---------------------------- MODULE Spec2Model ----------------------------
(***************************************************************************)
(* The memory game of MemoryGame-Self-Screen.ino as a state machine: the   *)
(* single thread of control of setup()/loop(), with play_memory,           *)
(* add_to_moves, playMoves, wait_for_button, checkButton, toner and        *)
(* setLEDs translated statement by statement.  The player (the four button *)
(* pins) and the millis() clock are the environment.                       *)
(***************************************************************************)
EXTENDS Integers, Naturals, Sequences, FiniteSets, TLC

(***************************************************************************)
(* Program constants (#define lines of the sketch).                        *)
(***************************************************************************)
CHOICE_OFF == 0
CHOICE_NONE == 0
CHOICE_GREEN == 16
CHOICE_RED == 8
CHOICE_YELLOW == 4
CHOICE_BLUE == 2
NO_OF_LEDS == 4
LED_GREEN == 26
LED_RED == 25
LED_YELLOW == 4
LED_BLUE == 21
BUTTON_GREEN == 32
BUTTON_RED == 15
BUTTON_YELLOW == 33
BUTTON_BLUE == 27
ENTRY_TIME_LIMIT == 3500
BoardSize == 32
ByteMod == 256
HIGH == 1
LOW == 0

(***************************************************************************)
(* Bounds of the model.  The sketch sets LEVELS_TO_COMPLETE to 10; the     *)
(* model is parametric in it and is checked with MaxLevels rounds, so that *)
(* every sequence over the four moves can be enumerated.  MaxTicks is the  *)
(* number of clock ticks that make up ENTRY_TIME_LIMIT.                    *)
(***************************************************************************)
MaxLevels == 3
MaxTicks == 2

LEVELS_TO_COMPLETE == MaxLevels
TickMs == (ENTRY_TIME_LIMIT + MaxTicks - 1) \div MaxTicks

Moves == {CHOICE_BLUE, CHOICE_YELLOW, CHOICE_RED, CHOICE_GREEN}
LedPins == {LED_GREEN, LED_RED, LED_YELLOW, LED_BLUE}
ButtonPins == {BUTTON_GREEN, BUTTON_RED, BUTTON_YELLOW, BUTTON_BLUE}

\* (leds & bit) != 0 for a bit that is a power of two
BitSet(leds, bit) == (leds \div bit) % 2 = 1

\* mutant: the last test is a copy of the one before it, it tests CHOICE_GREEN
setLEDs_YellowTestsGreen(leds) ==
  [p \in LedPins |->
     IF p = LED_BLUE THEN (IF BitSet(leds, CHOICE_BLUE) THEN HIGH ELSE LOW)
     ELSE IF p = LED_RED THEN (IF BitSet(leds, CHOICE_RED) THEN HIGH ELSE LOW)
     ELSE IF p = LED_GREEN THEN (IF BitSet(leds, CHOICE_GREEN) THEN HIGH ELSE LOW)
     ELSE (IF BitSet(leds, CHOICE_GREEN) THEN HIGH ELSE LOW)]

\* setLEDs(leds): the level written to each LED pin
setLEDs(leds) ==
  [p \in LedPins |->
     IF p = LED_BLUE THEN (IF BitSet(leds, CHOICE_BLUE) THEN HIGH ELSE LOW)
     ELSE IF p = LED_RED THEN (IF BitSet(leds, CHOICE_RED) THEN HIGH ELSE LOW)
     ELSE IF p = LED_GREEN THEN (IF BitSet(leds, CHOICE_GREEN) THEN HIGH ELSE LOW)
     ELSE (IF BitSet(leds, CHOICE_YELLOW) THEN HIGH ELSE LOW)]

\* the half period toner hands to buzz_sound for each choice (0: no sound)
TonePeriod(which) ==
  CASE which = CHOICE_BLUE -> 1592
    [] which = CHOICE_RED -> 1136
    [] which = CHOICE_GREEN -> 568
    [] which = CHOICE_YELLOW -> 638
    [] OTHER -> 0

\* mutant: the bits of all pressed buttons are combined into the result
checkButton_Combines(p) ==
  LET sensorVal4 == p[27]
      sensorVal3 == p[33]
      sensorVal2 == p[15]
      sensorVal1 == p[32]
  IN (IF sensorVal1 = 0 THEN CHOICE_BLUE ELSE 0)
     + (IF sensorVal2 = 0 THEN CHOICE_YELLOW ELSE 0)
     + (IF sensorVal3 = 0 THEN CHOICE_RED ELSE 0)
     + (IF sensorVal4 = 0 THEN CHOICE_GREEN ELSE 0)

\* checkButton(): one sample of the four button pins (LOW = pressed)
checkButton(p) ==
  LET sensorVal4 == p[27]
      sensorVal3 == p[33]
      sensorVal2 == p[15]
      sensorVal1 == p[32]
  IN IF sensorVal1 = 0 THEN CHOICE_BLUE
     ELSE IF sensorVal2 = 0 THEN CHOICE_YELLOW
     ELSE IF sensorVal3 = 0 THEN CHOICE_RED
     ELSE IF sensorVal4 = 0 THEN CHOICE_GREEN
     ELSE CHOICE_NONE

\* mutant: the conversion chain misses the first case, a draw of 0 stays 0
ChoiceOfRandom_MissesZero(newButton) ==
  IF newButton = 1 THEN CHOICE_YELLOW
  ELSE IF newButton = 2 THEN CHOICE_RED
  ELSE IF newButton = 3 THEN CHOICE_GREEN
  ELSE newButton

\* add_to_moves: the conversion of random(0, NO_OF_LEDS) to a CHOICE
ChoiceOfRandom(newButton) ==
  IF newButton = 0 THEN CHOICE_BLUE
  ELSE IF newButton = 1 THEN CHOICE_YELLOW
  ELSE IF newButton = 2 THEN CHOICE_RED
  ELSE IF newButton = 3 THEN CHOICE_GREEN
  ELSE newButton

\* 1 + 2 + ... + n
Triangle(n) == (n * (n + 1)) \div 2


(***************************************************************************)
(* State.  Program variables keep the names of the sketch; a local that is *)
(* out of scope holds 0 / FALSE.  The variables after "history" record     *)
(* what has happened in the present call of play_memory; they are never    *)
(* read by the program's actions, and are cleared when loop() returns.     *)
(***************************************************************************)
VARIABLES
  pc,               \* the statement the single thread of control is at
  gameBoard,        \* byte gameBoard[32]
  gameRound,        \* byte gameRound
  c,                \* play_memory: int c
  currentMove,      \* play_memory: the validation loop's index
  choice,           \* play_memory: byte choice
  playCurrentMove,  \* playMoves: the replay loop's index
  button,           \* loop(): byte button
  bRet,             \* loop(): bool bRet
  wfbButton,        \* wait_for_button: byte button
  wfbCaller,        \* wait_for_button: who called ("idle" or "validate")
  elapsed,          \* wait_for_button: millis() - startTime
  which,            \* toner: byte which
  tonerCaller,      \* toner: who called ("replay" or "wfb")
  leds,             \* the level of each LED pin
  tone,             \* the half period the buzzer is toggled with (0: silent)
  pins,             \* the level of each button pin (LOW = pressed)
  \* history
  inSession,        \* a call of play_memory is in progress
  overlap,          \* play_memory was called with an outcome not consumed
  outcome,          \* what play_memory returned: "none", "Won" or "Lost"
  announced,        \* the play_winner / play_loser calls of this loop()
  nGrow,            \* add_to_moves calls
  nRender,          \* toner calls of playMoves
  nInput,           \* wait_for_button calls of play_memory
  roundsCompleted,  \* rounds whose validation loop ran to its end
  roundInputs,      \* the moves wait_for_button returned in this round
  replayLog,        \* the moves rendered by the playMoves call of this round
  fresh,            \* the gameBoard indexes written
  staleRead,        \* a gameBoard entry not written in this call was read
  oob,              \* gameBoard was indexed outside 0..31
  failKind,         \* "none", or how the first bad input was bad
  snap,             \* <<nGrow, nRender, nInput>> at the first bad input
  counted,          \* button pins whose present hold was detected as a press
  doubleCount,      \* one hold was detected as a press twice
  detected,         \* what checkButton returned when the press was detected
  sawRelease,       \* the release loop of this wait_for_button call has ended
  feedback          \* the move toner played in this wait_for_button call

progVars == <<pc, gameBoard, gameRound, c, currentMove, choice, playCurrentMove,
              button, bRet, wfbButton, wfbCaller, elapsed, which, tonerCaller,
              leds, tone>>
sessionVars == <<inSession, overlap, outcome, announced, nGrow, nRender, nInput,
                 roundsCompleted, roundInputs, replayLog, fresh, staleRead, oob,
                 failKind, snap>>
pressVars == <<counted, doubleCount, detected, sawRelease, feedback>>
histVars == <<sessionVars, pressVars>>
vars == <<progVars, pins, histVars>>

AllReleased == [p \in ButtonPins |-> HIGH]

\* The state after the globals are constructed: the board and the round
\* counter are zeroed, no LED is lit, no button is pressed.
Init ==
  /\ pc = "setup"
  /\ gameBoard = [i \in 0..(BoardSize - 1) |-> 0]
  /\ gameRound = 0
  /\ c = 0
  /\ currentMove = 0
  /\ choice = 0
  /\ playCurrentMove = 0
  /\ button = 0
  /\ bRet = FALSE
  /\ wfbButton = 0
  /\ wfbCaller = "idle"
  /\ elapsed = 0
  /\ which = 0
  /\ tonerCaller = "replay"
  /\ leds = setLEDs(CHOICE_OFF)
  /\ tone = 0
  /\ pins = AllReleased
  /\ inSession = FALSE
  /\ overlap = FALSE
  /\ outcome = "none"
  /\ announced = <<>>
  /\ nGrow = 0
  /\ nRender = 0
  /\ nInput = 0
  /\ roundsCompleted = 0
  /\ roundInputs = <<>>
  /\ replayLog = <<>>
  /\ fresh = {}
  /\ staleRead = FALSE
  /\ oob = FALSE
  /\ failKind = "none"
  /\ snap = <<0, 0, 0>>
  /\ counted = {}
  /\ doubleCount = FALSE
  /\ detected = CHOICE_NONE
  /\ sawRelease = FALSE
  /\ feedback = CHOICE_NONE

\* gameBoard[i]: inside the array the stored byte; outside it any byte
BoardValues(i) == IF i < BoardSize THEN {gameBoard[i]} ELSE 0..(ByteMod - 1)

\* the button pin checkButton reports as the given choice
PinOfChoice(ch) ==
  CASE ch = CHOICE_BLUE -> 32
    [] ch = CHOICE_YELLOW -> 15
    [] ch = CHOICE_RED -> 33
    [] ch = CHOICE_GREEN -> 27
    [] OTHER -> 0

\* how an input is bad: it is CHOICE_NONE, or it is not the expected entry
BadInput(v, i) ==
  IF v = CHOICE_NONE THEN "timeout"
  ELSE IF i >= BoardSize \/ v # gameBoard[i] THEN "wrong"
  ELSE "none"

(***************************************************************************)
(* setup() and loop().                                                     *)
(***************************************************************************)

\* the LEDs play_winner leaves lit: its last setLEDs call
play_winner == setLEDs(CHOICE_BLUE)

\* the LEDs play_loser leaves lit: its last setLEDs call
play_loser == setLEDs(CHOICE_YELLOW)

\* setup(): the display and pin set-up, then play_winner() as a self test
Setup ==
  /\ pc = "setup"
  /\ leds' = play_winner
  /\ pc' = "loop_leds_on"
  /\ UNCHANGED <<gameBoard, gameRound, c, currentMove, choice, playCurrentMove,
                 button, bRet, wfbButton, wfbCaller, elapsed, which,
                 tonerCaller, tone, pins, histVars>>

\* loop(): bRet = false; button = 0; all four LEDs on for a second
LoopLedsOn ==
  /\ pc = "loop_leds_on"
  /\ bRet' = FALSE
  /\ button' = 0
  /\ leds' = setLEDs(CHOICE_BLUE + CHOICE_YELLOW + CHOICE_RED + CHOICE_GREEN)
  /\ pc' = "loop_leds_off"
  /\ UNCHANGED <<gameBoard, gameRound, c, currentMove, choice, playCurrentMove,
                 wfbButton, wfbCaller, elapsed, which, tonerCaller, tone, pins,
                 histVars>>

\* loop(): setLEDs(CHOICE_OFF); then the first wait_for_button() of while (true)
LoopLedsOff ==
  /\ pc = "loop_leds_off"
  /\ leds' = setLEDs(CHOICE_OFF)
  /\ wfbCaller' = "idle"
  /\ pc' = "wfb_enter"
  /\ UNCHANGED <<gameBoard, gameRound, c, currentMove, choice, playCurrentMove,
                 button, bRet, wfbButton, elapsed, which, tonerCaller, tone,
                 pins, histVars>>

\* loop(): if (button != 0) break; else wait_for_button() again.  After the
\* break: delay(1000); bRet = play_memory().  button is not read again.
IdleCheck ==
  /\ pc = "idle_check"
  /\ IF button # 0
       THEN /\ pc' = "pm_enter"
            /\ button' = 0
            /\ UNCHANGED wfbCaller
       ELSE /\ wfbCaller' = "idle"
            /\ pc' = "wfb_enter"
            /\ UNCHANGED button
  /\ UNCHANGED <<gameBoard, gameRound, c, currentMove, choice, playCurrentMove,
                 bRet, wfbButton, elapsed, which, tonerCaller, leds, tone,
                 pins, histVars>>

\* mutant: the result is not tested, play_winner is always called
Announce_AlwaysWinner ==
  /\ pc = "loop_result"
  /\ leds' = play_winner
  /\ announced' = Append(announced, "Won")
  /\ pc' = "loop_over"
  /\ UNCHANGED <<gameBoard, gameRound, c, currentMove, choice, playCurrentMove,
                 button, bRet, wfbButton, wfbCaller, elapsed, which,
                 tonerCaller, tone, pins, inSession, overlap, outcome, nGrow,
                 nRender, nInput, roundsCompleted, roundInputs, replayLog,
                 fresh, staleRead, oob, failKind, snap, pressVars>>

\* loop(): if (bRet == true) play_winner(); else play_loser();
Announce ==
  /\ pc = "loop_result"
  /\ leds' = IF bRet = TRUE THEN play_winner ELSE play_loser
  /\ announced' = Append(announced, IF bRet = TRUE THEN "Won" ELSE "Lost")
  /\ pc' = "loop_over"
  /\ UNCHANGED <<gameBoard, gameRound, c, currentMove, choice, playCurrentMove,
                 button, bRet, wfbButton, wfbCaller, elapsed, which,
                 tonerCaller, tone, pins, inSession, overlap, outcome, nGrow,
                 nRender, nInput, roundsCompleted, roundInputs, replayLog,
                 fresh, staleRead, oob, failKind, snap, pressVars>>

\* loop(): "Game Over" on the display, delay(1000), return; loop() is then
\* called again.  Its locals go out of scope and the history is cleared.
GameOver ==
  /\ pc = "loop_over"
  /\ bRet' = FALSE
  /\ button' = 0
  /\ pc' = "loop_leds_on"
  /\ outcome' = "none"
  /\ announced' = <<>>
  /\ nGrow' = 0
  /\ nRender' = 0
  /\ nInput' = 0
  /\ roundsCompleted' = 0
  /\ roundInputs' = <<>>
  /\ replayLog' = <<>>
  /\ fresh' = {}
  /\ staleRead' = FALSE
  /\ failKind' = "none"
  /\ snap' = <<0, 0, 0>>
  /\ UNCHANGED <<gameBoard, gameRound, c, currentMove, choice, playCurrentMove,
                 wfbButton, wfbCaller, elapsed, which, tonerCaller, leds, tone,
                 pins, inSession, overlap, oob, pressVars>>

(***************************************************************************)
(* play_memory().                                                          *)
(***************************************************************************)

\* mutant: play_memory does not reset gameRound
PlayMemoryEnter_NoReset ==
  /\ pc = "pm_enter"
  /\ c' = 0
  /\ pc' = "pm_while"
  /\ inSession' = TRUE
  /\ overlap' = (overlap \/ inSession \/ outcome # "none" \/ announced # <<>>)
  /\ UNCHANGED <<gameBoard, gameRound, currentMove, choice, playCurrentMove,
                 button, bRet, wfbButton, wfbCaller, elapsed, which,
                 tonerCaller, leds, tone, pins, outcome, announced, nGrow,
                 nRender, nInput, roundsCompleted, roundInputs, replayLog,
                 fresh, staleRead, oob, failKind, snap, pressVars>>

\* int c = 0; randomSeed(analogRead(0)); gameRound = 0;
PlayMemoryEnter ==
  /\ pc = "pm_enter"
  /\ c' = 0
  /\ gameRound' = 0
  /\ pc' = "pm_while"
  /\ inSession' = TRUE
  /\ overlap' = (overlap \/ inSession \/ outcome # "none" \/ announced # <<>>)
  /\ UNCHANGED <<gameBoard, currentMove, choice, playCurrentMove, button, bRet,
                 wfbButton, wfbCaller, elapsed, which, tonerCaller, leds, tone,
                 pins, outcome, announced, nGrow, nRender, nInput,
                 roundsCompleted, roundInputs, replayLog, fresh, staleRead,
                 oob, failKind, snap, pressVars>>

\* return <result>; from play_memory to bRet = play_memory() in loop()
Return(result) ==
  /\ bRet' = result
  /\ c' = 0
  /\ currentMove' = 0
  /\ choice' = 0
  /\ inSession' = FALSE
  /\ outcome' = IF result THEN "Won" ELSE "Lost"
  /\ pc' = "loop_result"

\* mutant: the loop test is off by one, the game is won a round early
PlayMemoryWhile_OneRoundShort ==
  /\ pc = "pm_while"
  /\ IF gameRound < LEVELS_TO_COMPLETE - 1
       THEN /\ pc' = "add_to_moves"
            /\ UNCHANGED <<bRet, c, currentMove, choice, inSession, outcome>>
       ELSE Return(TRUE)
  /\ UNCHANGED <<gameBoard, gameRound, playCurrentMove, button, wfbButton,
                 wfbCaller, elapsed, which, tonerCaller, leds, tone, pins,
                 overlap, announced, nGrow, nRender, nInput, roundsCompleted,
                 roundInputs, replayLog, fresh, staleRead, oob, failKind, snap,
                 pressVars>>

\* mutant: the loop test is <=, one round too many is played
PlayMemoryWhile_OneRoundMore ==
  /\ pc = "pm_while"
  /\ IF gameRound <= LEVELS_TO_COMPLETE
       THEN /\ pc' = "add_to_moves"
            /\ UNCHANGED <<bRet, c, currentMove, choice, inSession, outcome>>
       ELSE Return(TRUE)
  /\ UNCHANGED <<gameBoard, gameRound, playCurrentMove, button, wfbButton,
                 wfbCaller, elapsed, which, tonerCaller, leds, tone, pins,
                 overlap, announced, nGrow, nRender, nInput, roundsCompleted,
                 roundInputs, replayLog, fresh, staleRead, oob, failKind, snap,
                 pressVars>>

\* while (gameRound < LEVELS_TO_COMPLETE) ... return true;
PlayMemoryWhile ==
  /\ pc = "pm_while"
  /\ IF gameRound < LEVELS_TO_COMPLETE
       THEN /\ pc' = "add_to_moves"
            /\ UNCHANGED <<bRet, c, currentMove, choice, inSession, outcome>>
       ELSE Return(TRUE)
  /\ UNCHANGED <<gameBoard, gameRound, playCurrentMove, button, wfbButton,
                 wfbCaller, elapsed, which, tonerCaller, leds, tone, pins,
                 overlap, announced, nGrow, nRender, nInput, roundsCompleted,
                 roundInputs, replayLog, fresh, staleRead, oob, failKind, snap,
                 pressVars>>

\* mutant: the entry is stored without the ++ of gameRound
add_to_moves_NoIncrement ==
  /\ pc = "add_to_moves"
  /\ \E newButton \in 0..(NO_OF_LEDS - 1) :
       gameBoard' = IF gameRound < BoardSize
                      THEN [gameBoard EXCEPT ![gameRound] = ChoiceOfRandom(newButton)]
                      ELSE gameBoard
  /\ oob' = (oob \/ gameRound >= BoardSize)
  /\ nGrow' = nGrow + 1
  /\ fresh' = fresh \cup {gameRound}
  /\ playCurrentMove' = 0
  /\ replayLog' = <<>>
  /\ roundInputs' = <<>>
  /\ pc' = "playMoves"
  /\ UNCHANGED <<gameRound, c, currentMove, choice, button, bRet, wfbButton,
                 wfbCaller, elapsed, which, tonerCaller, leds, tone, pins,
                 inSession, overlap, outcome, announced, nRender, nInput,
                 roundsCompleted, staleRead, failKind, snap, pressVars>>

\* mutant: the counter is incremented before it indexes, gameBoard[++gameRound]
add_to_moves_PreIncrement ==
  /\ pc = "add_to_moves"
  /\ \E newButton \in 0..(NO_OF_LEDS - 1) :
       gameBoard' = IF gameRound + 1 < BoardSize
                      THEN [gameBoard EXCEPT ![gameRound + 1] = ChoiceOfRandom(newButton)]
                      ELSE gameBoard
  /\ gameRound' = (gameRound + 1) % ByteMod
  /\ oob' = (oob \/ gameRound + 1 >= BoardSize)
  /\ nGrow' = nGrow + 1
  /\ fresh' = fresh \cup {gameRound + 1}
  /\ playCurrentMove' = 0
  /\ replayLog' = <<>>
  /\ roundInputs' = <<>>
  /\ pc' = "playMoves"
  /\ UNCHANGED <<c, currentMove, choice, button, bRet, wfbButton, wfbCaller,
                 elapsed, which, tonerCaller, leds, tone, pins, inSession,
                 overlap, outcome, announced, nRender, nInput, roundsCompleted,
                 staleRead, failKind, snap, pressVars>>

\* mutant: the draw is repeated until it differs from the previous entry
add_to_moves_NoRepeat ==
  /\ pc = "add_to_moves"
  /\ \E newButton \in 0..(NO_OF_LEDS - 1) :
       /\ gameRound > 0 => ChoiceOfRandom(newButton) # gameBoard[gameRound - 1]
       /\ gameBoard' = IF gameRound < BoardSize
                         THEN [gameBoard EXCEPT ![gameRound] = ChoiceOfRandom(newButton)]
                         ELSE gameBoard
  /\ gameRound' = (gameRound + 1) % ByteMod
  /\ oob' = (oob \/ gameRound >= BoardSize)
  /\ nGrow' = nGrow + 1
  /\ fresh' = fresh \cup {gameRound}
  /\ playCurrentMove' = 0
  /\ replayLog' = <<>>
  /\ roundInputs' = <<>>
  /\ pc' = "playMoves"
  /\ UNCHANGED <<c, currentMove, choice, button, bRet, wfbButton, wfbCaller,
                 elapsed, which, tonerCaller, leds, tone, pins, inSession,
                 overlap, outcome, announced, nRender, nInput, roundsCompleted,
                 staleRead, failKind, snap, pressVars>>

\* add_to_moves(): newButton = random(0, NO_OF_LEDS), converted to a CHOICE;
\* gameBoard[gameRound++] = newButton.  Then playMoves() starts.
add_to_moves ==
  /\ pc = "add_to_moves"
  /\ \E newButton \in 0..(NO_OF_LEDS - 1) :
       gameBoard' = IF gameRound < BoardSize
                      THEN [gameBoard EXCEPT ![gameRound] = ChoiceOfRandom(newButton)]
                      ELSE gameBoard
  /\ gameRound' = (gameRound + 1) % ByteMod
  /\ oob' = (oob \/ gameRound >= BoardSize)
  /\ nGrow' = nGrow + 1
  /\ fresh' = fresh \cup {gameRound}
  /\ playCurrentMove' = 0
  /\ replayLog' = <<>>
  /\ roundInputs' = <<>>
  /\ pc' = "playMoves"
  /\ UNCHANGED <<c, currentMove, choice, button, bRet, wfbButton, wfbCaller,
                 elapsed, which, tonerCaller, leds, tone, pins, inSession,
                 overlap, outcome, announced, nRender, nInput, roundsCompleted,
                 staleRead, failKind, snap, pressVars>>

\* mutant: the replay loop stops one entry early
playMoves_SkipsLast ==
  /\ pc = "playMoves"
  /\ IF playCurrentMove + 1 < gameRound
       THEN /\ \E v \in BoardValues(playCurrentMove) :
                 /\ which' = v
                 /\ replayLog' = Append(replayLog, v)
            /\ tonerCaller' = "replay"
            /\ nRender' = nRender + 1
            /\ staleRead' = (staleRead \/ playCurrentMove \notin fresh)
            /\ oob' = (oob \/ playCurrentMove >= BoardSize)
            /\ pc' = "toner_on"
            /\ UNCHANGED <<currentMove, playCurrentMove>>
       ELSE /\ currentMove' = 0
            /\ playCurrentMove' = 0
            /\ pc' = "validate"
            /\ UNCHANGED <<which, tonerCaller, nRender, replayLog, staleRead, oob>>
  /\ UNCHANGED <<gameBoard, gameRound, c, choice, button, bRet, wfbButton,
                 wfbCaller, elapsed, leds, tone, pins, inSession, overlap,
                 outcome, announced, nGrow, nInput, roundsCompleted,
                 roundInputs, fresh, failKind, snap, pressVars>>

\* playMoves(): for (currentMove = 0; currentMove < gameRound; currentMove++)
\* toner(gameBoard[currentMove], 150); after the loop the validation loop of
\* play_memory starts with currentMove = 0.
playMoves ==
  /\ pc = "playMoves"
  /\ IF playCurrentMove < gameRound
       THEN /\ \E v \in BoardValues(playCurrentMove) :
                 /\ which' = v
                 /\ replayLog' = Append(replayLog, v)
            /\ tonerCaller' = "replay"
            /\ nRender' = nRender + 1
            /\ staleRead' = (staleRead \/ playCurrentMove \notin fresh)
            /\ oob' = (oob \/ playCurrentMove >= BoardSize)
            /\ pc' = "toner_on"
            /\ UNCHANGED <<currentMove, playCurrentMove>>
       ELSE /\ currentMove' = 0
            /\ playCurrentMove' = 0
            /\ pc' = "validate"
            /\ UNCHANGED <<which, tonerCaller, nRender, replayLog, staleRead, oob>>
  /\ UNCHANGED <<gameBoard, gameRound, c, choice, button, bRet, wfbButton,
                 wfbCaller, elapsed, leds, tone, pins, inSession, overlap,
                 outcome, announced, nGrow, nInput, roundsCompleted,
                 roundInputs, fresh, failKind, snap, pressVars>>

\* playMoves(): delay(150); currentMove++ after toner has returned
playMovesNext ==
  /\ pc = "playMoves_next"
  /\ playCurrentMove' = (playCurrentMove + 1) % ByteMod
  /\ pc' = "playMoves"
  /\ UNCHANGED <<gameBoard, gameRound, c, currentMove, choice, button, bRet,
                 wfbButton, wfbCaller, elapsed, which, tonerCaller, leds, tone,
                 pins, histVars>>

\* mutant: the validation loop tests <=, one position too many is polled
Validate_OneMore ==
  /\ pc = "validate"
  /\ IF currentMove <= gameRound
       THEN /\ wfbCaller' = "validate"
            /\ nInput' = nInput + 1
            /\ pc' = "wfb_enter"
            /\ UNCHANGED <<currentMove, roundsCompleted>>
       ELSE /\ roundsCompleted' = roundsCompleted + 1
            /\ currentMove' = 0
            /\ pc' = "pm_while"
            /\ UNCHANGED <<wfbCaller, nInput>>
  /\ UNCHANGED <<gameBoard, gameRound, c, choice, playCurrentMove, button, bRet,
                 wfbButton, elapsed, which, tonerCaller, leds, tone, pins,
                 inSession, overlap, outcome, announced, nGrow, nRender,
                 roundInputs, replayLog, fresh, staleRead, oob, failKind, snap,
                 pressVars>>

\* for (currentMove = 0; currentMove < gameRound; currentMove++)
\*   choice = wait_for_button(); after the loop delay(1000) and the next round
Validate ==
  /\ pc = "validate"
  /\ IF currentMove < gameRound
       THEN /\ wfbCaller' = "validate"
            /\ nInput' = nInput + 1
            /\ pc' = "wfb_enter"
            /\ UNCHANGED <<currentMove, roundsCompleted>>
       ELSE /\ roundsCompleted' = roundsCompleted + 1
            /\ currentMove' = 0
            /\ pc' = "pm_while"
            /\ UNCHANGED <<wfbCaller, nInput>>
  /\ UNCHANGED <<gameBoard, gameRound, c, choice, playCurrentMove, button, bRet,
                 wfbButton, elapsed, which, tonerCaller, leds, tone, pins,
                 inSession, overlap, outcome, announced, nGrow, nRender,
                 roundInputs, replayLog, fresh, staleRead, oob, failKind, snap,
                 pressVars>>

\* mutant: a wrong choice does not end the session, the next position is polled
ValidateCheck_KeepsGoing ==
  /\ pc = "validate_check"
  /\ IF choice = 0
       THEN /\ pc' = "timeout_loop"
            /\ UNCHANGED <<c, currentMove, choice, staleRead, oob>>
       ELSE /\ staleRead' = (staleRead \/ currentMove \notin fresh)
            /\ oob' = (oob \/ currentMove >= BoardSize)
            /\ currentMove' = (currentMove + 1) % ByteMod
            /\ choice' = 0
            /\ pc' = "validate"
            /\ UNCHANGED c
  /\ UNCHANGED <<gameBoard, gameRound, playCurrentMove, button, bRet, wfbButton,
                 wfbCaller, elapsed, which, tonerCaller, leds, tone, pins,
                 inSession, outcome, overlap, announced, nGrow, nRender,
                 nInput, roundsCompleted, roundInputs, replayLog, fresh,
                 failKind, snap, pressVars>>

\* if (choice == 0) { while (c < 3) ... }
\* if (choice != gameBoard[currentMove]) return false; else currentMove++
ValidateCheck ==
  /\ pc = "validate_check"
  /\ IF choice = 0
       THEN /\ pc' = "timeout_loop"
            /\ UNCHANGED <<bRet, c, currentMove, choice, inSession, outcome,
                           staleRead, oob>>
       ELSE /\ staleRead' = (staleRead \/ currentMove \notin fresh)
            /\ oob' = (oob \/ currentMove >= BoardSize)
            /\ \E v \in BoardValues(currentMove) :
                 IF choice # v
                   THEN Return(FALSE)
                   ELSE /\ currentMove' = (currentMove + 1) % ByteMod
                        /\ choice' = 0
                        /\ pc' = "validate"
                        /\ UNCHANGED <<bRet, c, inSession, outcome>>
  /\ UNCHANGED <<gameBoard, gameRound, playCurrentMove, button, wfbButton,
                 wfbCaller, elapsed, which, tonerCaller, leds, tone, pins,
                 overlap, announced, nGrow, nRender, nInput, roundsCompleted,
                 roundInputs, replayLog, fresh, failKind, snap, pressVars>>

\* mutant: the counter loop retries the input until c reaches 3
TimeoutLoop_Retry ==
  /\ pc = "timeout_loop"
  /\ IF c + 1 >= 3
       THEN /\ Return(FALSE)
            /\ UNCHANGED <<wfbCaller, nInput>>
       ELSE /\ c' = c + 1
            /\ wfbCaller' = "validate"
            /\ nInput' = nInput + 1
            /\ pc' = "wfb_enter"
            /\ UNCHANGED <<bRet, currentMove, choice, inSession, outcome>>
  /\ UNCHANGED <<gameBoard, gameRound, playCurrentMove, button, wfbButton,
                 elapsed, which, tonerCaller, leds, tone, pins, overlap,
                 announced, nGrow, nRender, roundsCompleted, roundInputs,
                 replayLog, fresh, staleRead, oob, failKind, snap, pressVars>>

\* while (c < 3) { c++; if (c >= 3) { return false; } } return false;
TimeoutLoop ==
  /\ pc = "timeout_loop"
  /\ IF c < 3
       THEN IF c + 1 >= 3
              THEN Return(FALSE)
              ELSE /\ c' = c + 1
                   /\ pc' = "timeout_loop"
                   /\ UNCHANGED <<bRet, currentMove, choice, inSession, outcome>>
       ELSE Return(FALSE)
  /\ UNCHANGED <<gameBoard, gameRound, playCurrentMove, button, wfbButton,
                 wfbCaller, elapsed, which, tonerCaller, leds, tone, pins,
                 overlap, announced, nGrow, nRender, nInput, roundsCompleted,
                 roundInputs, replayLog, fresh, staleRead, oob, failKind, snap,
                 pressVars>>

(***************************************************************************)
(* wait_for_button() and toner().                                          *)
(***************************************************************************)

\* The commented-out version of play_memory, at the same place of its loop:
\*   if (choice == 0) return false;
\*   if (choice != gameBoard[currentMove]) return false;
\* It has no counter c and no timeout loop: the place "timeout_loop" of the
\* code in use is still its place "validate_check".
play_memory_reference ==
  /\ pc \in {"validate_check", "timeout_loop"}
  /\ IF choice = 0
       THEN /\ Return(FALSE)
            /\ UNCHANGED <<staleRead, oob>>
       ELSE /\ staleRead' = (staleRead \/ currentMove \notin fresh)
            /\ oob' = (oob \/ currentMove >= BoardSize)
            /\ \E v \in BoardValues(currentMove) :
                 IF choice # v
                   THEN Return(FALSE)
                   ELSE /\ currentMove' = (currentMove + 1) % ByteMod
                        /\ choice' = 0
                        /\ pc' = "validate"
                        /\ UNCHANGED <<bRet, c, inSession, outcome>>
  /\ UNCHANGED <<gameBoard, gameRound, playCurrentMove, button, wfbButton,
                 wfbCaller, elapsed, which, tonerCaller, leds, tone, pins,
                 overlap, announced, nGrow, nRender, nInput, roundsCompleted,
                 roundInputs, replayLog, fresh, failKind, snap, pressVars>>

\* long startTime = millis();
WaitEnter ==
  /\ pc = "wfb_enter"
  /\ elapsed' = 0
  /\ wfbButton' = CHOICE_NONE
  /\ detected' = CHOICE_NONE
  /\ sawRelease' = FALSE
  /\ feedback' = CHOICE_NONE
  /\ pc' = "wfb_loop"
  /\ UNCHANGED <<gameBoard, gameRound, c, currentMove, choice, playCurrentMove,
                 button, bRet, wfbCaller, which, tonerCaller, leds, tone, pins,
                 sessionVars, counted, doubleCount>>

\* mutant: the pressed button is not played, the loop goes on to the release
WaitPoll_NoToner ==
  /\ pc = "wfb_loop"
  /\ IF elapsed < ENTRY_TIME_LIMIT
       THEN IF checkButton(pins) # CHOICE_NONE
              THEN /\ wfbButton' = checkButton(pins)
                   /\ elapsed' = 0
                   /\ detected' = checkButton(pins)
                   /\ doubleCount' =
                        (doubleCount \/ PinOfChoice(checkButton(pins)) \in counted)
                   /\ counted' = counted \cup {PinOfChoice(checkButton(pins))}
                   /\ pc' = "wfb_release"
              ELSE /\ pc' = "wfb_loop"
                   /\ UNCHANGED <<wfbButton, elapsed, detected, doubleCount,
                                  counted>>
       ELSE /\ wfbButton' = CHOICE_NONE
            /\ elapsed' = 0
            /\ pc' = "wfb_return"
            /\ UNCHANGED <<detected, doubleCount, counted>>
  /\ UNCHANGED <<gameBoard, gameRound, c, currentMove, choice, playCurrentMove,
                 button, bRet, wfbCaller, which, tonerCaller, leds, tone, pins,
                 sessionVars, sawRelease, feedback>>

\* while ((millis() - startTime) < ENTRY_TIME_LIMIT)
\*   { button = checkButton(); if (button != CHOICE_NONE) toner(button, 150) ... }
\* return CHOICE_NONE;       (startTime is not read again once the loop is left)
WaitPoll ==
  /\ pc = "wfb_loop"
  /\ IF elapsed < ENTRY_TIME_LIMIT
       THEN IF checkButton(pins) # CHOICE_NONE
              THEN /\ wfbButton' = checkButton(pins)
                   /\ which' = checkButton(pins)
                   /\ tonerCaller' = "wfb"
                   /\ elapsed' = 0
                   /\ detected' = checkButton(pins)
                   /\ doubleCount' =
                        (doubleCount \/ PinOfChoice(checkButton(pins)) \in counted)
                   /\ counted' = counted \cup {PinOfChoice(checkButton(pins))}
                   /\ pc' = "toner_on"
              ELSE /\ pc' = "wfb_loop"
                   /\ UNCHANGED <<wfbButton, which, tonerCaller, elapsed,
                                  detected, doubleCount, counted>>
       ELSE /\ wfbButton' = CHOICE_NONE
            /\ elapsed' = 0
            /\ pc' = "wfb_return"
            /\ UNCHANGED <<which, tonerCaller, detected, doubleCount, counted>>
  /\ UNCHANGED <<gameBoard, gameRound, c, currentMove, choice, playCurrentMove,
                 button, bRet, wfbCaller, leds, tone, pins, sessionVars,
                 sawRelease, feedback>>

\* mutant: the release loop is missing, the button is returned while still held
WaitRelease_NoWait ==
  /\ pc = "wfb_release"
  /\ pc' = "wfb_return"
  /\ UNCHANGED <<gameBoard, gameRound, c, currentMove, choice, playCurrentMove,
                 button, bRet, wfbButton, wfbCaller, elapsed, which,
                 tonerCaller, leds, tone, pins, sessionVars, counted,
                 doubleCount, detected, sawRelease, feedback>>

\* while (checkButton() != CHOICE_NONE) ;
WaitRelease ==
  /\ pc = "wfb_release"
  /\ IF checkButton(pins) # CHOICE_NONE
       THEN /\ pc' = "wfb_release"
            /\ UNCHANGED sawRelease
       ELSE /\ sawRelease' = TRUE
            /\ pc' = "wfb_return"
  /\ UNCHANGED <<gameBoard, gameRound, c, currentMove, choice, playCurrentMove,
                 button, bRet, wfbButton, wfbCaller, elapsed, which,
                 tonerCaller, leds, tone, pins, sessionVars, counted,
                 doubleCount, detected, feedback>>

\* delay(10); return button;  (or return CHOICE_NONE;) to the caller:
\* button = wait_for_button() in loop(), choice = wait_for_button() in play_memory
WaitReturn ==
  /\ pc = "wfb_return"
  /\ IF wfbCaller = "idle"
       THEN /\ button' = wfbButton
            /\ pc' = "idle_check"
            /\ UNCHANGED <<choice, roundInputs, failKind, snap>>
       ELSE /\ choice' = wfbButton
            /\ pc' = "validate_check"
            /\ roundInputs' = Append(roundInputs, wfbButton)
            /\ IF failKind = "none" /\ BadInput(wfbButton, currentMove) # "none"
                 THEN /\ failKind' = BadInput(wfbButton, currentMove)
                      /\ snap' = <<nGrow, nRender, nInput>>
                 ELSE UNCHANGED <<failKind, snap>>
            /\ UNCHANGED button
  /\ wfbButton' = 0
  /\ UNCHANGED <<gameBoard, gameRound, c, currentMove, playCurrentMove, bRet,
                 wfbCaller, elapsed, which, tonerCaller, leds, tone, pins, inSession,
                 overlap, outcome, announced, nGrow, nRender, nInput,
                 roundsCompleted, replayLog, fresh, staleRead, oob, pressVars>>

\* toner(): setLEDs(which); switch (which) buzz_sound(buzz_length_ms, period)
TonerOn ==
  /\ pc = "toner_on"
  /\ leds' = setLEDs(which)
  /\ tone' = TonePeriod(which)
  /\ feedback' = IF tonerCaller = "wfb" THEN which ELSE feedback
  /\ pc' = "toner_off"
  /\ UNCHANGED <<gameBoard, gameRound, c, currentMove, choice, playCurrentMove,
                 button, bRet, wfbButton, wfbCaller, elapsed, which,
                 tonerCaller, pins, sessionVars, counted, doubleCount,
                 detected, sawRelease>>

\* toner(): buzz_sound has returned; setLEDs(CHOICE_OFF); return to the caller
TonerOff ==
  /\ pc = "toner_off"
  /\ leds' = setLEDs(CHOICE_OFF)
  /\ tone' = 0
  /\ which' = 0
  /\ pc' = IF tonerCaller = "replay" THEN "playMoves_next" ELSE "wfb_release"
  /\ UNCHANGED <<gameBoard, gameRound, c, currentMove, choice, playCurrentMove,
                 button, bRet, wfbButton, wfbCaller, elapsed, tonerCaller,
                 pins, histVars>>

(***************************************************************************)
(* The environment: the player's fingers and the millis() clock.  The pins *)
(* are read only by checkButton and the clock only by the loop condition   *)
(* of wait_for_button, so they move while the program is about to read     *)
(* them: a change at any other time shows as a change at the next read.    *)
(* The poll loop of wait_for_button runs many times per millisecond, so a  *)
(* pressed button is sampled before the clock's next tick.                 *)
(***************************************************************************)
Sampling ==
  \/ pc = "wfb_release"
  \/ pc = "wfb_loop" /\ elapsed < ENTRY_TIME_LIMIT

Press ==
  /\ Sampling
  /\ \E b \in ButtonPins :
       /\ pins[b] = HIGH
       /\ pins' = [pins EXCEPT ![b] = LOW]
  /\ UNCHANGED <<progVars, histVars>>

Release ==
  /\ Sampling
  /\ \E b \in ButtonPins :
       /\ pins[b] = LOW
       /\ pins' = [pins EXCEPT ![b] = HIGH]
       /\ counted' = counted \ {b}
  /\ UNCHANGED <<progVars, sessionVars, doubleCount, detected, sawRelease,
                 feedback>>

ClockTick ==
  /\ pc = "wfb_loop"
  /\ elapsed < ENTRY_TIME_LIMIT
  /\ pins = AllReleased
  /\ elapsed' = elapsed + TickMs
  /\ UNCHANGED <<pc, gameBoard, gameRound, c, currentMove, choice,
                 playCurrentMove, button, bRet, wfbButton, wfbCaller, which,
                 tonerCaller, leds, tone, pins, histVars>>

Program ==
  \/ Setup \/ LoopLedsOn \/ LoopLedsOff \/ IdleCheck \/ Announce \/ GameOver
  \/ PlayMemoryEnter \/ PlayMemoryWhile \/ add_to_moves \/ playMoves
  \/ playMovesNext \/ Validate \/ ValidateCheck \/ TimeoutLoop
  \/ WaitEnter \/ WaitPoll \/ WaitRelease \/ WaitReturn \/ TonerOn \/ TonerOff

Environment == Press \/ Release \/ ClockTick

Next == Program \/ Environment

Spec == Init /\ [][Next]_vars

\* The single thread of control keeps running and the clock keeps ticking; the
\* player is free to press, hold and release as they like.
LiveSpec == Init /\ [][Next]_vars /\ WF_vars(Program) /\ WF_vars(ClockTick)

(***************************************************************************)
(* Properties.                                                             *)
(***************************************************************************)

\* gameBoard[0 .. k-1] as a sequence
BoardPrefix(k) == [i \in 1..k |-> gameBoard[i - 1]]

\* play_memory has been called and loop() has not yet returned
InSessionOrOver == inSession \/ outcome # "none"

\* the playMoves call of the round is in progress
InReplay ==
  /\ inSession
  /\ \/ pc \in {"playMoves", "playMoves_next"}
     \/ pc \in {"toner_on", "toner_off"} /\ tonerCaller = "replay"

\* C1: play_memory returns Won if and only if in every round 1..LEVELS_TO_COMPLETE
\* all inputs wait_for_button returned equal gameBoard[0..k-1] in order: a
\* session that returned Won had no bad input, completed LEVELS_TO_COMPLETE
\* rounds with gameRound = LEVELS_TO_COMPLETE, and a session that returned Lost
\* had a bad input before all rounds were completed; the inputs of a completed
\* round are the board's entries in order.
C1_WonIffAllCorrect ==
  /\ outcome = "Won" =>
       /\ failKind = "none"
       /\ roundsCompleted = LEVELS_TO_COMPLETE
       /\ gameRound = LEVELS_TO_COMPLETE
       /\ nInput = Triangle(LEVELS_TO_COMPLETE)
  /\ outcome = "Lost" =>
       /\ failKind # "none"
       /\ roundsCompleted < LEVELS_TO_COMPLETE
  /\ (InSessionOrOver /\ gameRound > 0 /\ roundsCompleted = gameRound) =>
       roundInputs = BoardPrefix(gameRound)
  /\ (inSession /\ failKind = "none" /\ pc = "pm_while"
        /\ gameRound >= LEVELS_TO_COMPLETE) => roundsCompleted = LEVELS_TO_COMPLETE

\* C1 witness: a session in which every input was correct has returned Won
C1_Witness ==
  /\ outcome = "Won"
  /\ gameRound = LEVELS_TO_COMPLETE
  /\ nInput = Triangle(LEVELS_TO_COMPLETE)
  /\ roundInputs = BoardPrefix(LEVELS_TO_COMPLETE)

\* C2: once wait_for_button has returned CHOICE_NONE to play_memory, no further
\* add_to_moves, playMoves or wait_for_button call happens in the session, the
\* session does not return Won, and it returns Lost; when the first input call
\* timed out the session returns Lost with gameRound = 1.
C2_TimeoutEndsSession ==
  failKind = "timeout" =>
    /\ <<nGrow, nRender, nInput>> = snap
    /\ pc \in {"validate_check", "timeout_loop", "loop_result", "loop_over"}
    /\ outcome = IF pc \in {"loop_result", "loop_over"} THEN "Lost" ELSE "none"
    /\ nInput = 1 => gameRound = 1

\* C2 witness: the very first input call timed out and the session returned Lost
C2_Witness ==
  /\ failKind = "timeout"
  /\ outcome = "Lost"
  /\ nInput = 1
  /\ pc = "loop_result"

\* C3: once wait_for_button has returned a move that is not gameBoard[currentMove],
\* no later position is polled and no further add_to_moves or playMoves call
\* occurs: the session returns Lost after exactly gameRound Grow steps,
\* 1 + ... + gameRound replay renders and one input call per position up to
\* the wrong one.
C3_WrongEndsSession ==
  failKind = "wrong" =>
    /\ <<nGrow, nRender, nInput>> = snap
    /\ pc \in {"validate_check", "loop_result", "loop_over"}
    /\ outcome = IF pc \in {"loop_result", "loop_over"} THEN "Lost" ELSE "none"
    /\ nGrow = gameRound
    /\ nRender = Triangle(gameRound)
    /\ Len(roundInputs) \in 1..gameRound
    /\ nInput = Triangle(gameRound - 1) + Len(roundInputs)
    /\ \A i \in 1..(Len(roundInputs) - 1) : roundInputs[i] = gameBoard[i - 1]
    /\ roundInputs[Len(roundInputs)] \in Moves \ {gameBoard[Len(roundInputs) - 1]}

\* C3 witness: a wrong move at the last position of round 3 has ended the
\* session after 3 Grow steps and 1 + 2 + 3 replay renders
C3_Witness ==
  /\ failKind = "wrong"
  /\ outcome = "Lost"
  /\ gameRound = 3
  /\ Len(roundInputs) = 3
  /\ nGrow = 3
  /\ nRender = 6

\* C4: always 0 <= gameRound <= LEVELS_TO_COMPLETE, and in a session the
\* number of sequence entries written in this session equals gameRound (they
\* are the entries 0 .. gameRound-1).
C4_LengthInvariant ==
  /\ gameRound \in 0..LEVELS_TO_COMPLETE
  /\ InSessionOrOver =>
       /\ nGrow = gameRound
       /\ fresh = 0..(gameRound - 1)
       /\ Cardinality(fresh) = gameRound

\* C4 witness: the last round's entry has been written
C4_Witness ==
  /\ inSession
  /\ pc = "playMoves"
  /\ gameRound = LEVELS_TO_COMPLETE
  /\ nGrow = LEVELS_TO_COMPLETE

C6_ReplayCompleteness ==
  /\ InReplay =>
       /\ Len(replayLog) = IF pc = "playMoves" THEN playCurrentMove
                           ELSE playCurrentMove + 1
       /\ Len(replayLog) <= gameRound
       /\ replayLog = BoardPrefix(Len(replayLog))
       /\ pc \in {"toner_on", "toner_off"} => which = gameBoard[playCurrentMove]
       /\ nInput = Triangle(gameRound - 1)
       /\ nRender = Triangle(gameRound - 1) + Len(replayLog)
  /\ (InSessionOrOver /\ ~InReplay /\ gameRound > 0 /\ pc # "add_to_moves") =>
       /\ replayLog = BoardPrefix(gameRound)
       /\ nRender = Triangle(gameRound)

\* C6 witness: the replay of round 3 has rendered three entries, not all equal
C6_Witness ==
  /\ inSession
  /\ pc = "validate"
  /\ currentMove = 0
  /\ gameRound = 3
  /\ Len(replayLog) = 3
  /\ replayLog[1] # replayLog[2]

\* C7: every call of play_memory starts from gameRound = 0, and no entry of
\* gameBoard is read that this call has not written: every index read is below
\* gameRound, and the entries below gameRound are the ones this call wrote.
C7_NoStateAcrossSessions ==
  /\ ~staleRead
  /\ (inSession /\ nGrow = 0) => gameRound = 0
  /\ inSession => fresh = 0..(gameRound - 1)
  /\ (InReplay /\ pc # "playMoves") => playCurrentMove < gameRound
  /\ (inSession /\ pc = "validate_check") => currentMove < gameRound

\* C7 witness: an input is compared in round 1 while the board still holds an
\* entry of an earlier session above gameRound
C7_Witness ==
  /\ inSession
  /\ pc = "validate_check"
  /\ choice # CHOICE_NONE
  /\ gameRound = 1
  /\ gameBoard[1] \in Moves
  /\ gameBoard[1] # gameBoard[0]

\* C8: wait_for_button always returns, for every behaviour of the buttons:
\* every call that is entered eventually hands a value (a move, or CHOICE_NONE
\* once ENTRY_TIME_LIMIT has elapsed) back to its caller.
C8_WaitAlwaysReturns ==
  (pc = "wfb_enter") ~> (pc \in {"idle_check", "validate_check"})

\* C9: wait_for_button returns a move only after its release loop has seen all
\* buttons released following the detected press, so no hold of a button is
\* detected as a press twice, and the value handed to the caller is the one
\* checkButton returned when the press was detected.
C9_ReleaseBeforeReturn ==
  /\ ~doubleCount
  /\ (pc = "wfb_return" /\ wfbButton # CHOICE_NONE) =>
       /\ sawRelease
       /\ pins = AllReleased
       /\ counted = {}
  /\ pc = "wfb_return" => wfbButton = detected
  /\ pc = "validate_check" => (choice = detected /\ (choice # CHOICE_NONE => sawRelease))
  /\ pc = "idle_check" => (button = detected /\ (button # CHOICE_NONE => sawRelease))
  /\ pc \in {"wfb_loop", "wfb_enter"} => counted \subseteq {b \in ButtonPins : pins[b] = LOW}

\* C9 witness: a pressed move has been handed to play_memory after the release
C9_Witness ==
  /\ pc = "validate_check"
  /\ choice \in Moves
  /\ sawRelease
  /\ pins = AllReleased

\* C10: each session produces one outcome and loop() announces it exactly once,
\* play_winner for Won and play_loser for Lost; play_memory is never called
\* while a session is in progress or its outcome has not been announced.
C10_OneOutcomeAnnouncedOnce ==
  /\ ~overlap
  /\ outcome \in {"none", "Won", "Lost"}
  /\ inSession => (outcome = "none" /\ announced = <<>>)
  /\ outcome # "none" => (~inSession /\ pc \in {"loop_result", "loop_over"})
  /\ pc = "loop_result" =>
       /\ outcome # "none"
       /\ announced = <<>>
       /\ bRet = (outcome = "Won")
  /\ pc = "loop_over" =>
       /\ announced = <<outcome>>
       /\ leds = IF outcome = "Won" THEN play_winner ELSE play_loser
  /\ pc \notin {"loop_result", "loop_over"} => announced = <<>>
  /\ pc = "pm_enter" => (~inSession /\ outcome = "none")

\* C10 witness: a lost session has been announced by play_loser, once
C10_Witness ==
  /\ pc = "loop_over"
  /\ outcome = "Lost"
  /\ announced = <<"Lost">>
  /\ leds = play_loser

\* C11: every entry gameBoard[i] with i < gameRound is one of the four moves and
\* never CHOICE_NONE, so a timed-out read (CHOICE_NONE) never equals the entry
\* it is compared with.
C11_EntriesAreMoves ==
  /\ \A i \in 0..(gameRound - 1) : gameBoard[i] \in Moves
  /\ CHOICE_NONE \notin Moves
  /\ (pc = "validate_check" /\ choice = CHOICE_NONE) =>
       /\ currentMove < gameRound
       /\ gameBoard[currentMove] # choice
       /\ failKind = "timeout"

\* C11 witness: a timed-out read is about to be compared in the last round
C11_Witness ==
  /\ pc = "validate_check"
  /\ choice = CHOICE_NONE
  /\ gameRound = LEVELS_TO_COMPLETE
  /\ currentMove = LEVELS_TO_COMPLETE - 1

\* C12: wait_for_button is called exactly once per validation position reached:
\* a session that fails at position i of round k has made 1 + ... + (k-1) +
\* (i+1) input calls, and a won session has made
\* LEVELS_TO_COMPLETE*(LEVELS_TO_COMPLETE+1)/2 input calls and as many replay
\* renders.
C12_InputCallCount ==
  /\ (inSession /\ pc = "validate") =>
       nInput = Triangle(gameRound - 1) + currentMove
  /\ (inSession /\ pc = "validate_check") =>
       /\ nInput = Triangle(gameRound - 1) + currentMove + 1
       /\ Len(roundInputs) = currentMove + 1
  /\ outcome = "Lost" =>
       /\ Len(roundInputs) \in 1..gameRound
       /\ nInput = Triangle(gameRound - 1) + Len(roundInputs)
  /\ outcome = "Won" =>
       /\ nInput = (LEVELS_TO_COMPLETE * (LEVELS_TO_COMPLETE + 1)) \div 2
       /\ nRender = nInput

\* C12 witness: a session has failed at position 1 of round 2 after 1 + 2 calls
C12_Witness ==
  /\ outcome = "Lost"
  /\ gameRound = 2
  /\ Len(roundInputs) = 2
  /\ nInput = 3

\* C13 (as stated): in the validation loop the light and sound feedback of a
\* single move is given exactly for a pressed move that is accepted; a timeout
\* and a move that differs from gameBoard[currentMove] get no such feedback.
C13_FeedbackOnlyWhenAccepted ==
  (inSession /\ pc = "validate_check") =>
    (feedback # CHOICE_NONE <=> choice = gameBoard[currentMove])

\* C13 (amended): wait_for_button plays the light and sound of every pressed
\* move before it returns, so at the comparison the feedback played is the
\* move read, accepted or not; only a timeout gets none.  A timeout or a move
\* that differs from gameBoard[currentMove] ends the session with Lost.
C13_FeedbackForEveryPress ==
  /\ (inSession /\ pc = "validate_check") =>
       /\ feedback = choice
       /\ choice = CHOICE_NONE <=> failKind = "timeout"
  /\ (outcome # "none" /\ failKind # "none") =>
       /\ outcome = "Lost"
       /\ failKind = "wrong" => feedback \in Moves
       /\ failKind = "timeout" => feedback = CHOICE_NONE

\* C13 witness: a pressed move that is not the expected one has been played
C13_Witness ==
  /\ inSession
  /\ pc = "validate_check"
  /\ choice \in Moves
  /\ choice # gameBoard[currentMove]
  /\ feedback = choice

\* a step inside the timeout branch that changes nothing but the place in the
\* branch and the counter c, which goes up by one and stays below 3
TimeoutBranchStutter ==
  /\ pc' = "timeout_loop"
  /\ choice = 0
  /\ c' \in {c, c + 1}
  /\ c' < 3
  /\ pc = "timeout_loop" => c' = c + 1
  /\ UNCHANGED <<gameBoard, gameRound, currentMove, choice, playCurrentMove,
                 button, bRet, wfbButton, wfbCaller, elapsed, which,
                 tonerCaller, leds, tone, pins, histVars>>

\* C14: the while (c < 3) loop of the timeout branch has no behavioural effect:
\* every step play_memory takes at the comparison or inside the timeout branch
\* is either the step the commented-out reference version takes there (which
\* returns false directly on a timeout), or changes nothing but the place
\* inside the branch and the counter c, at most twice (c stays below 3); so
\* outcome, gameRound and the calls made are those of the reference version,
\* and no input is retried after a timeout whatever c is.
C14_TimeoutLoopHasNoEffect ==
  [][(pc \in {"validate_check", "timeout_loop"}) =>
       (play_memory_reference \/ TimeoutBranchStutter)]_vars

\* C14 witness: the timeout loop has counted to 2 in the last round
C14_Witness ==
  /\ pc = "timeout_loop"
  /\ c = 2
  /\ gameRound = LEVELS_TO_COMPLETE
  /\ failKind = "timeout"

\* what a step may do to the sequence and in which order the round runs
RoundStep ==
  /\ \A i \in 0..(BoardSize - 1) :
       (i < gameRound /\ i < gameRound') => gameBoard'[i] = gameBoard[i]
  /\ (gameBoard' # gameBoard \/ (nGrow' # nGrow /\ nGrow' # 0)) =>
       /\ pc = "add_to_moves"
       /\ gameRound < BoardSize
       /\ gameRound' = gameRound + 1
       /\ nGrow' = nGrow + 1
       /\ gameBoard'[gameRound] \in Moves
       /\ \A i \in 0..(BoardSize - 1) :
            i # gameRound => gameBoard'[i] = gameBoard[i]
  /\ gameRound' # gameRound =>
       \/ pc = "add_to_moves" /\ gameRound' = gameRound + 1
       \/ pc = "pm_enter" /\ gameRound' = 0
  /\ pc' = "add_to_moves" =>
       /\ pc \in {"pm_while", "add_to_moves"}
       /\ nGrow = roundsCompleted
       /\ gameRound = roundsCompleted
  /\ (pc = "add_to_moves" /\ pc' # pc) =>
       /\ pc' = "playMoves"
       /\ replayLog' = <<>>
  /\ (pc' = "validate" /\ pc = "playMoves") =>
       /\ nGrow = roundsCompleted + 1
       /\ gameRound = nGrow
       /\ replayLog = BoardPrefix(gameRound)
  /\ (pc' = "validate" /\ pc # pc') => pc \in {"playMoves", "validate_check"}
  /\ roundsCompleted' = roundsCompleted + 1 =>
       /\ pc = "validate"
       /\ roundInputs = BoardPrefix(gameRound)
       /\ replayLog = BoardPrefix(gameRound)

\* C15: each round performs exactly one Grow, which appends exactly one move
\* at index gameRound and leaves every earlier entry unchanged, followed by a
\* replay of the whole sequence and then by the validation; an entry
\* gameBoard[i] with i < gameRound never changes once written within the
\* session.
C15_AppendOnlyRounds == [][RoundStep]_vars

\* C15 witness: the last round's Grow has appended its move after two full
\* rounds and the sequence is about to be replayed
C15_Witness ==
  /\ inSession
  /\ pc = "playMoves"
  /\ playCurrentMove = 0
  /\ gameRound = LEVELS_TO_COMPLETE
  /\ nGrow = LEVELS_TO_COMPLETE
  /\ roundsCompleted = LEVELS_TO_COMPLETE - 1
  /\ fresh = 0..(LEVELS_TO_COMPLETE - 1)

\* the LED pin that carries the colour name of a move
LedOfChoice(ch) ==
  CASE ch = CHOICE_BLUE -> LED_BLUE
    [] ch = CHOICE_RED -> LED_RED
    [] ch = CHOICE_GREEN -> LED_GREEN
    [] ch = CHOICE_YELLOW -> LED_YELLOW

\* the LED pins that are lit
Lit(l) == {p \in LedPins : l[p] = HIGH}

\* C16: toner is called with a move only; while its tone plays exactly the LED
\* of that move is lit and no other, and the buzzer runs with the period of
\* that move; when toner has returned all four LEDs are off and the buzzer is
\* silent; the four moves have four distinct LEDs and four distinct periods.
C16_TonerOneLedOneTone ==
  /\ pc \in {"toner_on", "toner_off"} => which \in Moves
  /\ pc = "toner_off" =>
       /\ Lit(leds) = {LedOfChoice(which)}
       /\ tone = TonePeriod(which)
       /\ tone > 0
  /\ pc \in {"playMoves_next", "wfb_release"} =>
       /\ Lit(leds) = {}
       /\ tone = 0
  /\ \A a \in Moves : Lit(setLEDs(a)) = {LedOfChoice(a)}
  /\ \A a, b \in Moves :
       a # b => /\ LedOfChoice(a) # LedOfChoice(b)
                /\ TonePeriod(a) # TonePeriod(b)

\* C16 witness: the tone of a replayed yellow move is playing
C16_Witness ==
  /\ pc = "toner_off"
  /\ tonerCaller = "replay"
  /\ which = CHOICE_YELLOW
  /\ leds[LED_YELLOW] = HIGH
  /\ tone = 638

\* C17: Grow may append any of the four moves whatever the entries already in
\* the sequence: whenever add_to_moves is about to run (with any sequence of
\* gameRound < LEVELS_TO_COMPLETE moves so far), for each of the four moves it
\* has a step that appends that move; hence every sequence of k moves, k <=
\* LEVELS_TO_COMPLETE, repeats included, can become gameBoard[0..k-1].
C17_AnyMoveMayBeAppended ==
  pc = "add_to_moves" =>
    /\ gameRound < LEVELS_TO_COMPLETE
    /\ \A m \in Moves :
         ENABLED (add_to_moves /\ gameBoard'[gameRound] = m
                               /\ gameRound' = gameRound + 1)

\* C17 witness: the same move has been appended in every round of a session
C17_Witness ==
  /\ inSession
  /\ gameRound = LEVELS_TO_COMPLETE
  /\ nGrow = LEVELS_TO_COMPLETE
  /\ \A i \in 0..(LEVELS_TO_COMPLETE - 1) : gameBoard[i] = CHOICE_RED

\* the move that carries the colour name of a button pin
ColourOfButton(b) ==
  CASE b = BUTTON_GREEN -> CHOICE_GREEN
    [] b = BUTTON_RED -> CHOICE_RED
    [] b = BUTTON_YELLOW -> CHOICE_YELLOW
    [] b = BUTTON_BLUE -> CHOICE_BLUE

\* the button pins that are pressed
Pressed(p) == {b \in ButtonPins : p[b] = LOW}

\* C18: checkButton returns the move whose colour is the colour of the pressed
\* button as named by BUTTON_GREEN, BUTTON_RED, BUTTON_YELLOW and BUTTON_BLUE,
\* and CHOICE_NONE when no button is pressed; so the move wait_for_button has
\* detected with one button down is the move of that button's colour.
C18_ButtonColourMatchesName ==
  /\ Pressed(pins) = {} => checkButton(pins) = CHOICE_NONE
  /\ \A b \in ButtonPins :
       Pressed(pins) = {b} => checkButton(pins) = ColourOfButton(b)
  /\ \A b \in ButtonPins :
       (pc = "toner_on" /\ tonerCaller = "wfb" /\ Pressed(pins) = {b}) =>
         wfbButton = ColourOfButton(b)

\* C19: every write and read of gameBoard uses an index in
\* 0..LEVELS_TO_COMPLETE-1, inside the array of BoardSize bytes: add_to_moves
\* is only called with gameRound < LEVELS_TO_COMPLETE <= BoardSize, and the
\* replay and validation indexes stay below gameRound <= LEVELS_TO_COMPLETE,
\* in every session, repeated ones included.
C19_IndexInBounds ==
  /\ ~oob
  /\ LEVELS_TO_COMPLETE <= BoardSize
  /\ gameRound <= LEVELS_TO_COMPLETE
  /\ pc = "add_to_moves" => gameRound < LEVELS_TO_COMPLETE
  /\ pc = "toner_on" /\ tonerCaller = "replay" =>
       playCurrentMove < LEVELS_TO_COMPLETE
  /\ pc = "validate_check" => currentMove < LEVELS_TO_COMPLETE
  /\ fresh \subseteq 0..(LEVELS_TO_COMPLETE - 1)

\* C19 witness: in a repeated session add_to_moves is about to overwrite the
\* last entry an earlier session has written
C19_Witness ==
  /\ pc = "add_to_moves"
  /\ gameRound = LEVELS_TO_COMPLETE - 1
  /\ (LEVELS_TO_COMPLETE - 1) \notin fresh
  /\ gameBoard[LEVELS_TO_COMPLETE - 1] \in Moves

\* the button pins in the order checkButton tests them: 32, 15, 33, 27
ButtonPriority == <<BUTTON_GREEN, BUTTON_RED, BUTTON_YELLOW, BUTTON_BLUE>>

\* the pressed pin that comes first in that order (0: none is pressed)
FirstPressed(p) ==
  LET idx == {i \in 1..Len(ButtonPriority) : p[ButtonPriority[i]] = LOW}
  IN IF idx = {} THEN 0
     ELSE ButtonPriority[CHOOSE i \in idx : \A j \in idx : i <= j]

\* C20: with several buttons pressed checkButton returns exactly one move, the
\* one of the pressed pin that comes first in the order 32, 15, 33, 27, never
\* a combination of bits; so what wait_for_button yields is always CHOICE_NONE
\* or a single one of the four moves.
C20_OneMoveByPriority ==
  /\ checkButton(pins) \in Moves \cup {CHOICE_NONE}
  /\ checkButton(pins) = CHOICE_NONE <=> Pressed(pins) = {}
  /\ Pressed(pins) # {} =>
       checkButton(pins) =
         checkButton([AllReleased EXCEPT ![FirstPressed(pins)] = LOW])
  /\ wfbButton \in Moves \cup {CHOICE_NONE}
  /\ detected \in Moves \cup {CHOICE_NONE}
  /\ button \in Moves \cup {CHOICE_NONE}
  /\ choice \in Moves \cup {CHOICE_NONE}

\* C20 witness: a press was detected with three buttons down, the first pin
\* of the order not among them
C20_Witness ==
  /\ pc = "toner_on"
  /\ tonerCaller = "wfb"
  /\ Pressed(pins) = {BUTTON_RED, BUTTON_YELLOW, BUTTON_BLUE}
  /\ wfbButton = checkButton([AllReleased EXCEPT ![BUTTON_RED] = LOW])

=============================================================================
